---- MODULE Spec2Model ----
(***************************************************************************)
(* A model of scraper.py: the helpers slugify, unique_path, ensure_dirs    *)
(* and collect_headings, the per-URL pipeline scrape_url and the batch     *)
(* runner main.                                                            *)
(*                                                                         *)
(* Text is a sequence of characters, each a string: an ASCII character is *)
(* itself, a character outside ASCII is written by its code point          *)
(* ("U+00C9").  A file name is the text of its last path component; the    *)
(* directory it lives in is given by the variable that holds it (mdFiles:  *)
(* the output directory, pngFiles: its assets/ subdirectory).              *)
(***************************************************************************)
EXTENDS Integers, Sequences, FiniteSets, TLC

VARIABLES
    pc,          \* main's position: parse, exists, read, loop, scrape, unwind, except, halt
    argvOk,      \* whether argparse accepts the command line
    urlsFile,    \* the --urls path: [state: missing | unreadable | ok, lines]
    screenshot,  \* the --screenshot flag
    flaky,       \* whether the browser/network may fail at any step
    urls,        \* main's list `urls`
    k,           \* index of the loop `for u in urls[:5]` (1-based)
    exitCode,    \* process exit status, -1 while running
    dirs,        \* directories that exist among out, out/assets, out/data
    mdFiles,     \* the .md files of the output directory: name -> content
    pngFiles,    \* the files of out/assets
    sessions,    \* browser sessions that are open
    launched,    \* number of browser sessions launched so far
    cur,         \* the locals of the running scrape_url call
    attempted,   \* the URLs scrape_url was called with, in call order
    reported,    \* the "Failed on <url>" lines printed, with their loop index
    saved,       \* the "Saved <path>" lines printed, with the content written
    start,       \* the file system main started with
    callSnap,    \* the file system when the running scrape_url call began
    arg,         \* input of a helper called on its own
    store,       \* directory contents for unique_path called on its own
    res          \* results of a helper called on its own

mainVars == <<pc, argvOk, urlsFile, screenshot, flaky, urls, k, exitCode, dirs,
              mdFiles, pngFiles, sessions, launched, cur, attempted, reported,
              saved, start, callSnap>>
helperVars == <<arg, store, res>>
vars == <<mainVars, helperVars>>

----------------------------------------------------------------------------
(* Bounds of the model *)

MaxLen == 4          \* longest text given to slugify on its own
MaxLines == 7        \* longest URL list file of BatchSpec
MaxCalls == 2        \* longest URL list file of Spec
MaxProbeCalls == 3   \* successive unique_path calls on one directory
MaxElems == 3        \* longest document given to the extractor on its own

(* Program constants *)

MaxUrls == 5         \* urls[:5]
SlugMaxLen == 80     \* slugify(title)[:80]
FirstSuffix == 2     \* i = 2 in unique_path
HeadingLevels == 6   \* range(1, 7) in collect_headings

----------------------------------------------------------------------------
(* Text *)

AsciiLower == {"a","b","c","d","e","f","g","h","i","j","k","l","m",
               "n","o","p","q","r","s","t","u","v","w","x","y","z"}
Digits == {"0","1","2","3","4","5","6","7","8","9"}
Whitespace == {" ", "\t"}

Min(a, b) == IF a <= b THEN a ELSE b

RECURSIVE LStrip(_, _)
LStrip(s, set) ==
    IF s = <<>> THEN s
    ELSE IF Head(s) \in set THEN LStrip(Tail(s), set) ELSE s

RECURSIVE RStrip(_, _)
RStrip(s, set) ==
    IF s = <<>> THEN s
    ELSE IF s[Len(s)] \in set THEN RStrip(SubSeq(s, 1, Len(s) - 1), set) ELSE s

\* str.strip() and str.strip(chars)
strip(s, set) == RStrip(LStrip(s, set), set)

\* str.lower() on one character
LowerChar(c) ==
    CASE c = "A" -> "a" [] c = "B" -> "b" [] c = "H" -> "h" [] c = "Q" -> "q"
      [] c = "Z" -> "z" [] c = "U+00C9" -> "U+00E9" [] OTHER -> c

lower(s) == [i \in 1..Len(s) |-> LowerChar(s[i])]

\* re.sub(r"\s+", "-", s)
RECURSIVE SubWhitespace(_)
SubWhitespace(s) ==
    IF s = <<>> THEN <<>>
    ELSE IF Head(s) \in Whitespace
         THEN <<"-">> \o SubWhitespace(LStrip(Tail(s), Whitespace))
         ELSE <<Head(s)>> \o SubWhitespace(Tail(s))

SlugChar(c) == c \in AsciiLower \cup Digits \cup {"-"}

\* re.sub(r"[^a-z0-9\-]+", "", s)
DropUnsafe(s) == SelectSeq(s, SlugChar)

\* re.sub(r"-{2,}", "-", s)
RECURSIVE CollapseHyphens(_)
CollapseHyphens(s) ==
    IF s = <<>> THEN <<>>
    ELSE IF Head(s) = "-"
         THEN <<"-">> \o CollapseHyphens(LStrip(Tail(s), {"-"}))
         ELSE <<Head(s)>> \o CollapseHyphens(Tail(s))

Page == <<"p", "a", "g", "e">>

\* `x or "page"`
OrPage(s) == IF s = <<>> THEN Page ELSE s

slugify_keep_edges(s) ==
    OrPage(CollapseHyphens(DropUnsafe(SubWhitespace(lower(strip(s, Whitespace))))))

slugify(s) ==
    OrPage(strip(CollapseHyphens(DropUnsafe(SubWhitespace(lower(strip(s, Whitespace))))),
                 {"-"}))

\* str(i) for i >= 0
DigitChar(d) == <<"0","1","2","3","4","5","6","7","8","9">>[d + 1]

RECURSIVE Dec(_)
Dec(n) == IF n < 10 THEN <<DigitChar(n)>> ELSE Dec(n \div 10) \o <<DigitChar(n % 10)>>

ExtMd == <<".", "m", "d">>
ExtPng == <<".", "p", "n", "g">>

----------------------------------------------------------------------------
(* unique_path *)

\* f"{base_name}-{i}{ext}"
Candidate(base, i, ext) == base \o <<"-">> \o Dec(i) \o ext

\* the `while True` loop from i on; names is the finite set of existing names
RECURSIVE Probe(_, _, _, _)
Probe(names, base, ext, i) ==
    IF Candidate(base, i, ext) \notin names
    THEN Candidate(base, i, ext)
    ELSE Probe(names, base, ext, i + 1)

unique_path_no_probe(names, base, ext) == base \o ext

unique_path_from_one(names, base, ext) ==
    IF base \o ext \notin names THEN base \o ext ELSE Probe(names, base, ext, 1)

unique_path(names, base, ext) ==
    IF base \o ext \notin names THEN base \o ext ELSE Probe(names, base, ext, FirstSuffix)

----------------------------------------------------------------------------
(* The rendered page: a sequence of elements in document order.  A heading *)
(* is [tag |-> "h", lvl, text]; a meta tag is [tag |-> "meta", key,        *)
(* content], key being what its name= or property= attribute says and      *)
(* content <<>> when the attribute is missing, <<value>> otherwise.        *)

Heading(lvl, text) ==
    [tag |-> "h", lvl |-> lvl, text |-> text, key |-> "", content |-> <<>>]
Meta(key, content) ==
    [tag |-> "meta", lvl |-> 0, text |-> <<>>, key |-> key, content |-> content]

\* " ".join(text.split()): whitespace runs become one space, the ends are trimmed
RECURSIVE JoinWords(_)
JoinWords(s) ==
    IF s = <<>> THEN <<>>
    ELSE IF Head(s) \in Whitespace
         THEN <<" ">> \o JoinWords(LStrip(Tail(s), Whitespace))
         ELSE <<Head(s)>> \o JoinWords(Tail(s))

NormalizeText(s) == JoinWords(strip(s, Whitespace))

\* soup.select(f"h{lvl}"): the headings of one level, in document order
SelectLevel(doc, lvl) ==
    LET IsLvl(e) == e.tag = "h" /\ e.lvl = lvl IN SelectSeq(doc, IsLvl)

\* the inner loop of collect_headings over one level's elements
RECURSIVE OutlineOf(_)
OutlineOf(hs) ==
    IF hs = <<>> THEN <<>>
    ELSE LET text == NormalizeText(Head(hs).text)
         IN  (IF text # <<>> THEN <<[lvl |-> Head(hs).lvl, text |-> text]>> ELSE <<>>)
             \o OutlineOf(Tail(hs))

\* the outer loop `for lvl in range(1, 7)` from lvl on
RECURSIVE HeadingsFrom(_, _)
HeadingsFrom(doc, lvl) ==
    IF lvl > HeadingLevels THEN <<>>
    ELSE OutlineOf(SelectLevel(doc, lvl)) \o HeadingsFrom(doc, lvl + 1)

collect_headings(doc) == HeadingsFrom(doc, 1)

\* soup.find("meta", attrs=...): the first such tag, <<>> when there is none
FindMeta(doc, key) ==
    LET IsKey(e) == e.tag = "meta" /\ e.key = key
        found == SelectSeq(doc, IsKey)
    IN  IF found = <<>> THEN <<>> ELSE <<Head(found)>>

\* `a or b` on two find() results: a Tag is truthy whatever its attributes
MetaTag(doc) ==
    IF FindMeta(doc, "description") # <<>>
    THEN FindMeta(doc, "description")
    ELSE FindMeta(doc, "og:description")

\* md_tag.get("content") is truthy: the attribute is there and not ""
HasContent(tag) == tag.content # <<>> /\ tag.content[1] # <<>>

meta_desc_of(doc) ==
    IF MetaTag(doc) # <<>> /\ HasContent(MetaTag(doc)[1])
    THEN strip(MetaTag(doc)[1].content[1], Whitespace)
    ELSE <<>>

----------------------------------------------------------------------------
(* The helpers called on their own *)

RECURSIVE SeqsUpTo(_, _)
SeqsUpTo(S, n) ==
    IF n = 0 THEN {<<>>}
    ELSE LET shorter == SeqsUpTo(S, n - 1)
         IN  shorter \cup {Append(s, x) : s \in {t \in shorter : Len(t) = n - 1}, x \in S}

TextChars == {"a", "B", "7", "-", " ", "!", "U+00C9"}
Texts == SeqsUpTo(TextChars, MaxLen)

\* main does not run while a helper is called on its own
MainParked(name) ==
    /\ pc = name /\ argvOk = TRUE /\ urlsFile = <<>> /\ screenshot = FALSE
    /\ flaky = FALSE /\ urls = <<>> /\ k = 0 /\ exitCode = -1 /\ dirs = {}
    /\ mdFiles = <<>> /\ pngFiles = {} /\ sessions = {} /\ launched = 0
    /\ cur = <<>> /\ attempted = <<>> /\ reported = <<>> /\ saved = <<>>
    /\ start = <<>> /\ callSnap = <<>>

(* slugify on every text of up to MaxLen characters *)

SlugInit == MainParked("slugify") /\ arg \in Texts /\ store = {} /\ res = <<>>

SlugifyCall ==
    /\ pc = "slugify" /\ res = <<>>
    /\ res' = <<slugify(arg)>>
    /\ UNCHANGED <<mainVars, arg, store>>

SlugNext == SlugifyCall
SlugSpec == SlugInit /\ [][SlugNext]_vars

(* unique_path called again and again for one base name on one directory,  *)
(* the returned file being created after each call                         *)

ProbeBases == {<<"a">>, <<"a", "-", "2">>}
NamePool ==
    {<<"a">> \o ExtMd, <<"a", "-", "1">> \o ExtMd, <<"a", "-", "2">> \o ExtMd,
     <<"a", "-", "3">> \o ExtMd, <<"a", "-", "2", "-", "2">> \o ExtMd,
     <<"a">> \o ExtPng}
\* a directory in which a.md and a-2.md .. a-10.md are all taken
Crowded == {<<"a">> \o ExtMd} \cup {Candidate(<<"a">>, i, ExtMd) : i \in 2..10}

UniqueInit ==
    /\ MainParked("unique_path")
    /\ arg \in [base : ProbeBases, ext : {ExtMd}]
    /\ store \in (SUBSET NamePool) \cup {Crowded}
    /\ res = <<>>

UniquePathCall ==
    /\ pc = "unique_path" /\ Len(res) < MaxProbeCalls
    /\ LET p == unique_path(store, arg.base, arg.ext)
       IN  /\ res' = Append(res, [path |-> p, before |-> store])
           /\ store' = store \cup {p}
    /\ UNCHANGED <<mainVars, arg>>

UniqueNext == UniquePathCall
UniqueSpec == UniqueInit /\ [][UniqueNext]_vars

(* the extraction of the heading outline and the meta description from     *)
(* every document of up to MaxElems elements                               *)

HeadingTexts == {<<" ">>, <<"a">>, <<" ", "b", " ", "\t", "c">>}
MetaContents == {<<>>, << <<>> >>, << <<" ">> >>, << <<"d", " ">> >>, << <<"g">> >>}
Elements ==
    {Heading(l, t) : l \in 1..HeadingLevels, t \in HeadingTexts}
    \cup {Meta(key, c) : key \in {"description", "og:description"}, c \in MetaContents}

ExtractInit ==
    /\ MainParked("extract")
    /\ arg \in SeqsUpTo(Elements, MaxElems)
    /\ store = {} /\ res = <<>>

ExtractCall ==
    /\ pc = "extract" /\ res = <<>>
    /\ res' = <<[headings |-> collect_headings(arg), meta_desc |-> meta_desc_of(arg)]>>
    /\ UNCHANGED <<mainVars, arg, store>>

ExtractNext == ExtractCall
ExtractSpec == ExtractInit /\ [][ExtractNext]_vars

----------------------------------------------------------------------------
(* The web the pipeline runs against.  A URL is written as one token       *)
(* ("x"), so a line of the URL list is a sequence of URL tokens and        *)
(* whitespace characters.                                                  *)

UrlX == <<"x">>
UrlY == <<"y">>
UrlZ == <<"z">>

\* navigation to a dead URL always fails (page.goto raises)
DeadUrls == {UrlY}

\* what the browser and readability report for a URL that loads
Web(u) ==
    IF u = UrlX
    THEN [title |-> <<" ", "H", " ", "q">>, short_title |-> <<"H">>,
          doc |-> <<Meta("og:description", << <<"d">> >>),
                    Heading(2, <<"b", " ", " ", "c">>), Heading(1, <<"a">>)>>,
          body |-> <<"t">>, tables |-> <<>>]
    ELSE [title |-> <<>>, short_title |-> <<" ", "Z", "t">>,
          doc |-> <<>>, body |-> <<"u">>, tables |-> << <<"|">> >>]

\* urlparse(url).netloc and .path
UrlParse(u) ==
    IF u = UrlX THEN [netloc |-> <<"h">>, path |-> <<"/", "x">>]
    ELSE IF u = UrlZ THEN [netloc |-> <<"h">>, path |-> <<"/", "q">>]
    ELSE [netloc |-> <<"h">>, path |-> <<>>]

----------------------------------------------------------------------------
(* The file system *)

AllDirs == {"out", "out/assets", "out/data"}

ensure_dirs(d) == d \cup {"out", "out/assets"} \cup {"out", "out/data"}

EmptyFiles == [q \in {} |-> <<>>]

\* Path.write_text: creates the file, or replaces the content of an existing one
WriteText(files, p, content) ==
    [q \in DOMAIN files \cup {p} |-> IF q = p THEN content ELSE files[q]]

----------------------------------------------------------------------------
(* The Markdown document: the list `lines`, one record per appended entry *)

Line(kind, n, text, anchor) == [kind |-> kind, n |-> n, text |-> text, anchor |-> anchor]

AssetsPrefix == <<"a", "s", "s", "e", "t", "s", "/">>

Render(c) ==
    <<Line("title", 0, c.title, <<>>), Line("source", 0, c.url, <<>>)>>
    \o (IF c.meta_desc # <<>> THEN <<Line("meta", 0, c.meta_desc, <<>>)>> ELSE <<>>)
    \o (IF c.headings # <<>>
        THEN <<Line("toc-title", 0, <<>>, <<>>)>>
             \o [i \in 1..Len(c.headings) |->
                   Line("toc", c.headings[i].lvl - 1, c.headings[i].text,
                        <<"#">> \o slugify(c.headings[i].text))]
             \o <<Line("blank", 0, <<>>, <<>>)>>
        ELSE <<>>)
    \o <<Line("rule", 0, <<>>, <<>>), Line("body", 0, c.main_md, <<>>)>>
    \o [i \in 1..Len(c.tables) |-> Line("table", i, c.tables[i], <<>>)]
    \o (IF c.shot_rel # <<>> THEN <<Line("screenshot", 0, c.shot_rel, <<>>)>> ELSE <<>>)

----------------------------------------------------------------------------
(* scrape_url: its statements in order, grouped into steps.  The steps     *)
(* launch .. close are the body of `with sync_playwright() as p`.          *)

PipelineWriteEarly ==
    <<"ensure_dirs", "launch", "fetch", "extract", "name", "write", "screenshot", "close">>

Pipeline ==
    <<"ensure_dirs", "launch", "fetch", "extract", "name", "screenshot", "close", "write">>

WithBody == {"launch", "fetch", "extract", "name", "screenshot", "close"}

\* steps that call the browser, a library or the file system and so can raise
FailSteps == {"ensure_dirs", "launch", "fetch", "extract", "screenshot", "close", "write"}

NullCur ==
    [url |-> <<>>, ip |-> 0, session |-> 0, title |-> <<>>, meta_desc |-> <<>>,
     headings |-> <<>>, main_md |-> <<>>, tables |-> <<>>, base_name |-> <<>>,
     md_path |-> <<>>, shot_rel |-> <<>>, failed |-> ""]

Step == IF pc = "scrape" THEN Pipeline[cur.ip] ELSE ""

\* whether the step at hand succeeds
Outcomes(step) ==
    IF step = "fetch" /\ cur.url \in DeadUrls THEN {FALSE}
    ELSE IF flaky /\ step \in FailSteps THEN {TRUE, FALSE}
    ELSE {TRUE}

\* the statement after the step at hand, or the return to the caller
Proceed(c) ==
    IF c.ip = Len(Pipeline)
    THEN pc' = "loop" /\ k' = k + 1 /\ cur' = NullCur
    ELSE pc' = "scrape" /\ k' = k /\ cur' = [c EXCEPT !.ip = @ + 1]

\* the step at hand raises
Raise == pc' = "unwind" /\ k' = k /\ cur' = [cur EXCEPT !.failed = Step]

\* browser.close()
browser_close(open, id) == open \ {id}

with_exit_leak(open, id) == open

\* leaving the with block: sync_playwright().__exit__ stops the driver and
\* with it the browser the call launched
with_exit(open, id) == open \ {id}

\* slugify(title)[:80] or "page"
base_name_of(title) ==
    LET slug == slugify(title)
    IN  OrPage(SubSeq(slug, 1, Min(SlugMaxLen, Len(slug))))

ScrapeEnsureDirs ==
    /\ Step = "ensure_dirs"
    /\ \E ok \in Outcomes("ensure_dirs") :
         IF ok THEN dirs' = ensure_dirs(dirs) /\ Proceed(cur)
         ELSE dirs' = dirs /\ Raise
    /\ UNCHANGED <<argvOk, urlsFile, screenshot, flaky, urls, exitCode, mdFiles,
                   pngFiles, sessions, launched, attempted, reported, saved,
                   start, callSnap, helperVars>>

ScrapeLaunch ==
    /\ Step = "launch"
    /\ \E ok \in Outcomes("launch") :
         IF ok
         THEN /\ launched' = launched + 1
              /\ sessions' = sessions \cup {launched + 1}
              /\ Proceed([cur EXCEPT !.session = launched + 1])
         ELSE UNCHANGED <<launched, sessions>> /\ Raise
    /\ UNCHANGED <<argvOk, urlsFile, screenshot, flaky, urls, exitCode, dirs, mdFiles,
                   pngFiles, attempted, reported, saved, start, callSnap, helperVars>>

\* page.goto, the scroll loop, the extra wait, page.content(), page.title()
ScrapeFetch ==
    /\ Step = "fetch"
    /\ \E ok \in Outcomes("fetch") :
         IF ok
         THEN Proceed([cur EXCEPT !.title = strip(Web(cur.url).title, Whitespace)])
         ELSE Raise
    /\ UNCHANGED <<argvOk, urlsFile, screenshot, flaky, urls, exitCode, dirs, mdFiles,
                   pngFiles, sessions, launched, attempted, reported, saved, start,
                   callSnap, helperVars>>

\* meta description, headings, readability (with its fallback), markdownify, tables
ScrapeExtract ==
    /\ Step = "extract"
    /\ \E ok \in Outcomes("extract"), readable \in (IF flaky THEN BOOLEAN ELSE {TRUE}) :
         IF ok
         THEN LET page == Web(cur.url)
              IN  Proceed([cur EXCEPT
                     !.meta_desc = meta_desc_of(page.doc),
                     !.headings = collect_headings(page.doc),
                     !.main_md = strip(page.body, Whitespace),
                     !.title = IF readable /\ cur.title = <<>>
                               THEN strip(page.short_title, Whitespace) ELSE @,
                     !.tables = page.tables])
         ELSE Raise
    /\ UNCHANGED <<argvOk, urlsFile, screenshot, flaky, urls, exitCode, dirs, mdFiles,
                   pngFiles, sessions, launched, attempted, reported, saved, start,
                   callSnap, helperVars>>

\* the title's last fallback, base_name and md_path
ScrapeName ==
    /\ Step = "name"
    /\ LET parsed == UrlParse(cur.url)
           fallback == strip(parsed.netloc \o <<" ">> \o parsed.path, Whitespace)
           title == IF cur.title = <<>> THEN OrPage(fallback) ELSE cur.title
           base == base_name_of(title)
       IN  Proceed([cur EXCEPT !.title = title, !.base_name = base,
                               !.md_path = unique_path(DOMAIN mdFiles, base, ExtMd)])
    /\ UNCHANGED <<argvOk, urlsFile, screenshot, flaky, urls, exitCode, dirs, mdFiles,
                   pngFiles, sessions, launched, attempted, reported, saved, start,
                   callSnap, helperVars>>

ScrapeScreenshot ==
    /\ Step = "screenshot"
    /\ \E ok \in Outcomes("screenshot") :
         IF ~screenshot THEN pngFiles' = pngFiles /\ Proceed(cur)
         ELSE IF ok
         THEN LET shot == unique_path(pngFiles, cur.base_name, ExtPng)
              IN  /\ pngFiles' = pngFiles \cup {shot}
                  /\ Proceed([cur EXCEPT !.shot_rel = AssetsPrefix \o shot])
         ELSE pngFiles' = pngFiles /\ Raise
    /\ UNCHANGED <<argvOk, urlsFile, screenshot, flaky, urls, exitCode, dirs, mdFiles,
                   sessions, launched, attempted, reported, saved, start, callSnap,
                   helperVars>>

\* browser.close(), then the end of the with block
ScrapeClose ==
    /\ Step = "close"
    /\ \E ok \in Outcomes("close") :
         IF ok
         THEN /\ sessions' = with_exit(browser_close(sessions, cur.session), cur.session)
              /\ Proceed(cur)
         ELSE sessions' = sessions /\ Raise
    /\ UNCHANGED <<argvOk, urlsFile, screenshot, flaky, urls, exitCode, dirs, mdFiles,
                   pngFiles, launched, attempted, reported, saved, start, callSnap,
                   helperVars>>

\* building `lines`, md_path.write_text and the "Saved" line
ScrapeWrite ==
    /\ Step = "write"
    /\ \E ok \in Outcomes("write") :
         IF ok
         THEN /\ mdFiles' = WriteText(mdFiles, cur.md_path, Render(cur))
              /\ saved' = Append(saved, [path |-> cur.md_path, base |-> cur.base_name,
                                       content |-> Render(cur)])
              /\ Proceed(cur)
         ELSE UNCHANGED <<mdFiles, saved>> /\ Raise
    /\ UNCHANGED <<argvOk, urlsFile, screenshot, flaky, urls, exitCode, dirs, pngFiles,
                   sessions, launched, attempted, reported, start, callSnap, helperVars>>

\* the exception leaves scrape_url, through the with block's exit when it was
\* raised inside the block
ScrapeUnwind ==
    /\ pc = "unwind"
    /\ sessions' = IF cur.failed \in WithBody THEN with_exit(sessions, cur.session)
                   ELSE sessions
    /\ pc' = "except"
    /\ UNCHANGED <<argvOk, urlsFile, screenshot, flaky, urls, k, exitCode, dirs, mdFiles,
                   pngFiles, launched, cur, attempted, reported, saved, start, callSnap,
                   helperVars>>

----------------------------------------------------------------------------
(* main *)

\* [line.strip() for line in f if line.strip()]
RECURSIVE ReadUrls(_)
ReadUrls(lines) ==
    IF lines = <<>> THEN <<>>
    ELSE (IF strip(Head(lines), Whitespace) # <<>>
          THEN <<strip(Head(lines), Whitespace)>> ELSE <<>>)
         \o ReadUrls(Tail(lines))

BatchSliceAll(us) == us

\* urls[:5]
BatchSlice(us) == SubSeq(us, 1, Min(MaxUrls, Len(us)))

OnMissingFileExitZero == [pc |-> "halt", exitCode |-> 0]

\* the branch `if not urls_file.exists()`: print and sys.exit(1)
OnMissingFile == [pc |-> "halt", exitCode |-> 1]

ExceptReraise(i) == [pc |-> "halt", k |-> i, exitCode |-> 1]

\* `except Exception as e`: print and go on with the next URL
ExceptClause(i) == [pc |-> "loop", k |-> i + 1, exitCode |-> -1]

\* ap.parse_args(): argparse ends the process with status 2 on a bad command line
MainParseArgs ==
    /\ pc = "parse"
    /\ IF argvOk THEN pc' = "exists" /\ exitCode' = exitCode
       ELSE pc' = "halt" /\ exitCode' = 2
    /\ UNCHANGED <<argvOk, urlsFile, screenshot, flaky, urls, k, dirs, mdFiles, pngFiles,
                   sessions, launched, cur, attempted, reported, saved, start, callSnap,
                   helperVars>>

MainCheckFile ==
    /\ pc = "exists"
    /\ IF urlsFile.state = "missing"
       THEN pc' = OnMissingFile.pc /\ exitCode' = OnMissingFile.exitCode
       ELSE pc' = "read" /\ exitCode' = exitCode
    /\ UNCHANGED <<argvOk, urlsFile, screenshot, flaky, urls, k, dirs, mdFiles, pngFiles,
                   sessions, launched, cur, attempted, reported, saved, start, callSnap,
                   helperVars>>

\* open() and the read: a path that exists but cannot be opened or decoded
\* raises out of main, and the interpreter ends with status 1
MainReadUrls ==
    /\ pc = "read"
    /\ IF urlsFile.state = "ok"
       THEN urls' = ReadUrls(urlsFile.lines) /\ k' = 1 /\ pc' = "loop"
            /\ exitCode' = exitCode
       ELSE urls' = urls /\ k' = k /\ pc' = "halt" /\ exitCode' = 1
    /\ UNCHANGED <<argvOk, urlsFile, screenshot, flaky, dirs, mdFiles, pngFiles,
                   sessions, launched, cur, attempted, reported, saved, start, callSnap,
                   helperVars>>

\* the head of `for u in urls[:5]`: the call of scrape_url, or the end of main
MainLoop ==
    /\ pc = "loop"
    /\ IF k <= Len(BatchSlice(urls))
       THEN /\ pc' = "scrape"
            /\ cur' = [NullCur EXCEPT !.url = BatchSlice(urls)[k], !.ip = 1]
            /\ attempted' = Append(attempted, BatchSlice(urls)[k])
            /\ callSnap' = [md |-> mdFiles, png |-> pngFiles]
            /\ exitCode' = exitCode
       ELSE /\ pc' = "halt" /\ exitCode' = 0
            /\ UNCHANGED <<cur, attempted, callSnap>>
    /\ UNCHANGED <<argvOk, urlsFile, screenshot, flaky, urls, k, dirs, mdFiles, pngFiles,
                   sessions, launched, reported, saved, start, helperVars>>

MainExcept ==
    /\ pc = "except"
    /\ pc' = ExceptClause(k).pc /\ k' = ExceptClause(k).k
    /\ exitCode' = ExceptClause(k).exitCode
    /\ reported' = IF ExceptClause(k).pc = "loop"
                   THEN Append(reported, [k |-> k, url |-> cur.url, step |-> cur.failed])
                   ELSE reported
    /\ cur' = NullCur
    /\ UNCHANGED <<argvOk, urlsFile, screenshot, flaky, urls, dirs, mdFiles, pngFiles,
                   sessions, launched, attempted, saved, start, callSnap, helperVars>>

Next ==
    \/ MainParseArgs \/ MainCheckFile \/ MainReadUrls \/ MainLoop \/ MainExcept
    \/ ScrapeEnsureDirs \/ ScrapeLaunch \/ ScrapeFetch \/ ScrapeExtract \/ ScrapeName
    \/ ScrapeScreenshot \/ ScrapeClose \/ ScrapeWrite \/ ScrapeUnwind

HelpersParked == arg = <<>> /\ store = {} /\ res = <<>>

\* what the output directory may hold when main starts
OldDoc == <<Line("title", 0, <<"o", "l", "d">>, <<>>)>>
StartFs ==
    {[dirs |-> {}, md |-> EmptyFiles, png |-> {}],
     [dirs |-> {"out"}, md |-> (<<"h", "-", "q">> \o ExtMd) :> OldDoc, png |-> {}],
     [dirs |-> AllDirs, md |-> (<<"h", "-", "q", "-", "2">> \o ExtMd) :> OldDoc,
      png |-> {<<"h", "-", "q">> \o ExtPng}]}

MainInit(files, fss, flags, flakies) ==
    /\ pc = "parse" /\ argvOk \in BOOLEAN
    /\ urlsFile \in {[state |-> "missing", lines |-> <<>>],
                     [state |-> "unreadable", lines |-> <<>>]}
                    \cup {[state |-> "ok", lines |-> l] : l \in files}
    /\ screenshot \in flags /\ flaky \in flakies
    /\ urls = <<>> /\ k = 0 /\ exitCode = -1
    /\ start \in fss
    /\ dirs = start.dirs /\ mdFiles = start.md /\ pngFiles = start.png
    /\ sessions = {} /\ launched = 0 /\ cur = NullCur
    /\ attempted = <<>> /\ reported = <<>> /\ saved = <<>>
    /\ callSnap = [md |-> start.md, png |-> start.png]
    /\ HelpersParked

\* Spec: short URL lists, every start of the output directory, both settings of
\* --screenshot, and a browser that may fail at every step
SpecLines == {<<>>, <<" ", "x">>, <<"z", "\t">>, <<"y">>}
Init == MainInit(SeqsUpTo(SpecLines, MaxCalls), StartFs, BOOLEAN, {TRUE})
Spec == Init /\ [][Next]_vars

\* BatchSpec: URL lists of up to MaxLines lines, an empty output directory, and
\* a web in which x loads and y does not
BatchLines == {<<" ">>, <<" ", "x">>, <<"y">>}
BatchInit ==
    MainInit(SeqsUpTo(BatchLines, MaxLines), {[dirs |-> {}, md |-> EmptyFiles, png |-> {}]},
             {TRUE}, {FALSE})
BatchSpec == BatchInit /\ [][Next]_vars

----------------------------------------------------------------------------
(* Properties *)

MainPcs == {"parse", "exists", "read", "loop", "scrape", "unwind", "except", "halt"}

\* the names of the output directory just before the i-th saved document was written
DirBefore(i) == DOMAIN start.md \cup {saved[j].path : j \in 1..(i - 1)}

\* p is the first unused name of base+ext, base-2+ext, base-3+ext, ... given names
FirstUnused(p, names, base, ext) ==
    /\ p \notin names
    /\ IF base \o ext \notin names THEN p = base \o ext
       ELSE \E n \in 2..(Cardinality(names) + 2) :
               /\ p = Candidate(base, n, ext)
               /\ \A m \in 2..(n - 1) : Candidate(base, m, ext) \in names

\* C1: no Markdown document is ever overwritten: every document the directory
\* started with and every document saved since is still there with the content
\* it was written with, each saved document went to a name that did not exist
\* when it was chosen (the first unused of slug.md, slug-2.md, ...), and n saved
\* documents are n more files.
C1_NoOverwrite ==
    pc \in MainPcs =>
        /\ \A p \in DOMAIN start.md : p \in DOMAIN mdFiles /\ mdFiles[p] = start.md[p]
        /\ \A i \in 1..Len(saved) :
              /\ saved[i].path \in DOMAIN mdFiles
              /\ mdFiles[saved[i].path] = saved[i].content
              /\ FirstUnused(saved[i].path, DirBefore(i), saved[i].base, ExtMd)
        /\ \A i, j \in 1..Len(saved) : i # j => saved[i].path # saved[j].path
        /\ Cardinality(DOMAIN mdFiles) = Cardinality(DOMAIN start.md) + Len(saved)
        /\ (pc = "scrape" /\ cur.md_path # <<>>) => cur.md_path \notin DOMAIN mdFiles

\* two URLs with the same slug were saved into an empty directory as h-q.md and h-q-2.md
C1_Witness ==
    /\ pc = "halt" /\ start.md = EmptyFiles /\ Len(saved) >= 2
    /\ saved[1].base = saved[2].base /\ saved[1].content # saved[2].content
    /\ saved[1].path = <<"h", "-", "q">> \o ExtMd
    /\ saved[2].path = <<"h", "-", "q", "-", "2">> \o ExtMd

IsBlank(line) == \A i \in 1..Len(line) : line[i] \in Whitespace

\* t is line without its leading and trailing whitespace
IsTrimOf(t, line) ==
    /\ t # <<>> /\ t[1] \notin Whitespace /\ t[Len(t)] \notin Whitespace
    /\ \E a \in 0..Len(line) :
          /\ a + Len(t) <= Len(line)
          /\ SubSeq(line, a + 1, a + Len(t)) = t
          /\ \A i \in (1..a) \cup ((a + Len(t) + 1)..Len(line)) : line[i] \in Whitespace

NonBlank(lines) == {i \in 1..Len(lines) : ~IsBlank(lines[i])}

\* the index of the j-th non-blank line
NthNonBlank(lines, j) ==
    CHOOSE i \in NonBlank(lines) : Cardinality({m \in NonBlank(lines) : m < i}) = j - 1

\* C2: scrape_url is called on the first min(5, k) non-blank lines of the URL
\* list, trimmed, once each and in file order, and on nothing else; k is the
\* number of non-blank lines.
C2_FirstFiveInOrder ==
    (pc \in MainPcs /\ urlsFile.state = "ok") =>
        LET lines == urlsFile.lines
            n == Min(5, Cardinality(NonBlank(lines)))
        IN  /\ Len(attempted) <= n
            /\ pc = "halt" /\ exitCode = 0 => Len(attempted) = n
            /\ \A j \in 1..Len(attempted) :
                  IsTrimOf(attempted[j], lines[NthNonBlank(lines, j)])

\* a list whose first line is blank and that has more than five non-blank lines
C2_Witness ==
    /\ pc = "halt" /\ urlsFile.state = "ok" /\ Len(attempted) = 5
    /\ Cardinality(NonBlank(urlsFile.lines)) > 5
    /\ IsBlank(urlsFile.lines[1]) /\ urlsFile.lines[2] = <<" ", "x">>

\* C3: a URL that fails is reported with that URL and the batch goes on: when
\* main ends, every one of the first five URLs was attempted, each is either
\* reported as failed or has its document, and the exit status is 0; a failure
\* never ends the process.
C3_FailureIsolated ==
    (pc \in MainPcs /\ argvOk /\ urlsFile.state = "ok") =>
        /\ pc = "except" => exitCode = -1
        /\ \A j \in 1..Len(reported) :
              /\ reported[j].k \in 1..Len(attempted)
              /\ reported[j].url = attempted[reported[j].k]
              /\ \A i \in 1..(j - 1) : reported[i].k < reported[j].k
        /\ pc = "halt" =>
              /\ exitCode = 0
              /\ Len(attempted) = Min(5, Len(urls))
              /\ \A i \in 1..Len(attempted) : attempted[i] = urls[i]
              /\ Len(reported) + Len(saved) = Len(attempted)
              /\ \A i \in 1..Len(saved) : saved[i].path \in DOMAIN mdFiles

\* the first URL failed and a later one was saved
C3_Witness ==
    /\ pc = "halt" /\ Len(reported) >= 1 /\ reported[1].k = 1
    /\ Len(attempted) >= 2 /\ Len(saved) >= 1 /\ exitCode = 0

NothingCreated ==
    /\ attempted = <<>> /\ launched = 0
    /\ dirs = start.dirs /\ mdFiles = start.md /\ pngFiles = start.png

\* C4 as stated, for a command line that parses: exit status 1 with nothing
\* created when the URL list does not exist, exit status 0 in every other run.
C4_ExitCodes ==
    (pc = "halt" /\ argvOk) =>
        IF urlsFile.state = "missing" THEN exitCode = 1 /\ NothingCreated
        ELSE exitCode = 0

\* C4 amended: for a command line that parses, exit status 1 with no call of
\* scrape_url and nothing created when the URL list does not exist, and exit
\* status 0 when the URL list exists and can be read, whatever failed.
C4_ExitCodesReadable ==
    (pc \in MainPcs /\ argvOk) =>
        /\ urlsFile.state = "missing" => NothingCreated
        /\ pc = "halt" /\ urlsFile.state = "missing" => exitCode = 1
        /\ pc = "halt" /\ urlsFile.state = "ok" => exitCode = 0

\* main ended on a missing URL list, the output directory still absent
C4_Witness ==
    /\ pc = "halt" /\ argvOk /\ urlsFile.state = "missing" /\ exitCode = 1
    /\ dirs = {}

\* C5: a scrape_url call that fails leaves the Markdown files as they were when
\* it began; no call touches them before its last step; the only file a failed
\* call may add is one screenshot.
C5_FailedLeavesNoMarkdown ==
    pc \in {"scrape", "unwind", "except"} =>
        /\ mdFiles = callSnap.md
        /\ callSnap.png \subseteq pngFiles
        /\ Cardinality(pngFiles \ callSnap.png) <= 1

\* a call failed while closing the browser, its screenshot already on disk
C5_Witness ==
    /\ pc = "except" /\ cur.failed = "close"
    /\ pngFiles # callSnap.png /\ cur.md_path # <<>>

\* C8: outside a scrape_url call no browser session is open, whether the call
\* returned or raised; inside a call the only open session is the one the call
\* launched, and each call launches at most one, new, session.
C8_SessionScoped ==
    pc \in MainPcs =>
        /\ pc \notin {"scrape", "unwind"} => sessions = {}
        /\ sessions \subseteq {cur.session} \ {0}
        /\ pc \in {"scrape", "unwind"} /\ cur.session # 0 => cur.session = launched
        /\ launched <= Len(attempted)

\* the second call of a run launched its own session and failed at the screenshot
C8_Witness ==
    /\ pc = "except" /\ cur.failed = "screenshot" /\ cur.session = 2
    /\ Len(attempted) = 2 /\ sessions = {}

\* C6: every unique_path call returns the first unused name of base+ext,
\* base-2+ext, base-3+ext, ..., a name that did not exist at the call; the
\* suffix -1 is never used; from a directory with none of these names the calls
\* return base.md, base-2.md, base-3.md, ... in that order.
C6_FirstUnusedName ==
    pc = "unique_path" =>
        /\ \A i \in 1..Len(res) :
              /\ res[i].path \notin res[i].before
              /\ FirstUnused(res[i].path, res[i].before, arg.base, arg.ext)
              /\ res[i].path # Candidate(arg.base, 1, arg.ext)
        /\ (store \cap ({arg.base \o arg.ext}
                        \cup {Candidate(arg.base, n, arg.ext) : n \in 2..Len(res)})
              = {res[i].path : i \in 1..Len(res)})
           => \A i \in 1..Len(res) :
                 res[i].path = IF i = 1 THEN arg.base \o arg.ext
                               ELSE Candidate(arg.base, i, arg.ext)

\* three calls for base a on a directory with no a-family name: a.md, a-2.md, a-3.md
C6_Witness ==
    /\ pc = "unique_path" /\ arg.base = <<"a">> /\ Len(res) = 3
    /\ res[1].before = {<<"a", "-", "1">> \o ExtMd}
    /\ res[1].path = <<"a", ".", "m", "d">>
    /\ res[2].path = <<"a", "-", "2", ".", "m", "d">>
    /\ res[3].path = <<"a", "-", "3", ".", "m", "d">>

\* C7: slugify's result is never empty, holds only a-z, 0-9 and "-", neither
\* starts nor ends with "-", has no "--", and is "page" when the input has no
\* ASCII letter or digit.
C7_SlugWellFormed ==
    (pc = "slugify" /\ res # <<>>) =>
        LET slug == res[1]
        IN  /\ slug # <<>>
            /\ \A i \in 1..Len(slug) : slug[i] \in AsciiLower \cup Digits \cup {"-"}
            /\ slug[1] # "-" /\ slug[Len(slug)] # "-"
            /\ \A i \in 1..(Len(slug) - 1) : ~(slug[i] = "-" /\ slug[i + 1] = "-")
            /\ (\A i \in 1..Len(arg) : LowerChar(arg[i]) \notin AsciiLower \cup Digits)
               => slug = <<"p", "a", "g", "e">>

\* "-B -" becomes "b"
C7_Witness ==
    /\ pc = "slugify" /\ arg = <<"-", "B", " ", "-">> /\ res = << <<"b">> >>

IsHeading(e) == e.tag = "h"

\* the headings of the document with non-empty normalized text, in document order
RECURSIVE DocumentOrderOutline(_)
DocumentOrderOutline(doc) ==
    IF doc = <<>> THEN <<>>
    ELSE (IF IsHeading(Head(doc)) /\ NormalizeText(Head(doc).text) # <<>>
          THEN <<[lvl |-> Head(doc).lvl, text |-> NormalizeText(Head(doc).text)]>>
          ELSE <<>>)
         \o DocumentOrderOutline(Tail(doc))

\* C9: the heading outline is the (level, normalized text) pairs of the
\* document's headings with non-empty normalized text, in document order.
C9_OutlineInDocumentOrder ==
    (pc = "extract" /\ res # <<>>) => res[1].headings = DocumentOrderOutline(arg)

Usable(found) == found # <<>> /\ HasContent(found[1])

\* C10: the meta description is the content of the first of the description
\* and og:description tags that has a non-empty content attribute, and is
\* absent only when neither has one.
C10_FirstTagWithContent ==
    (pc = "extract" /\ res # <<>>) =>
        LET d == FindMeta(arg, "description")
            o == FindMeta(arg, "og:description")
        IN  res[1].meta_desc =
                IF Usable(d) THEN strip(d[1].content[1], Whitespace)
                ELSE IF Usable(o) THEN strip(o[1].content[1], Whitespace)
                ELSE <<>>

====
